---- MODULE Spec2Model ----
(***************************************************************************)
(* DeskSetups Shop API (src/main.py, src/schemas.py).                      *)
(*                                                                         *)
(* The model is the request handlers of the API running concurrently over  *)
(* one document store.  A handler is split into steps exactly at its store *)
(* operations (count_documents, insert_many, find, distinct, insert_one):  *)
(* everything between two store operations is local to the request and is  *)
(* folded into the step of the store operation that follows it.            *)
(*                                                                         *)
(* Text is modelled by TLA+ strings, so that str.lower(), sorted() and the *)
(* case-insensitive search are computed character by character.  A value   *)
(* that may be None is a sequence of length 0 (None) or 1 (the value).     *)
(***************************************************************************)
EXTENDS Integers, Sequences, FiniteSets, TLC

(***************************************************************************)
(* Bounds of the model.                                                    *)
(***************************************************************************)
\* number of requests the server handles at the same time
NumWorkers == 2
\* number of requests handled in one behaviour
MaxRequests == 2

Workers == 1..NumWorkers

(***************************************************************************)
(* Text: Python's str operations.                                          *)
(***************************************************************************)
UpperLetters == "ABCDEFGHIJKLMNOPQRSTUVWXYZ"
LowerLetters == "abcdefghijklmnopqrstuvwxyz"
\* the ASCII characters of the texts of the model in code point order:
\* 32..33, 35..91 and the lower-case letters 97..122
AsciiLow == " !"
AsciiMid == "#$%&'()*+,-./0123456789:;<=>?@ABCDEFGHIJKLMNOPQRSTUVWXYZ["
AsciiHigh == "abcdefghijklmnopqrstuvwxyz"

CharAt(s, i) == SubSeq(s, i, i)

\* the position of character c in text s, 0 when it does not occur
IndexOf(c, s) ==
    IF \E i \in 1..Len(s) : CharAt(s, i) = c
    THEN CHOOSE i \in 1..Len(s) : CharAt(s, i) = c /\ \A j \in 1..(i - 1) : CharAt(s, j) # c
    ELSE 0

\* ord(c)
Ord(c) ==
    IF IndexOf(c, AsciiLow) > 0 THEN IndexOf(c, AsciiLow) + 31
    ELSE IF IndexOf(c, AsciiMid) > 0 THEN IndexOf(c, AsciiMid) + 34
    ELSE IndexOf(c, AsciiHigh) + 96

\* the lower-case letter of each upper-case letter
LowerOf ==
    [c \in {CharAt(UpperLetters, i) : i \in 1..Len(UpperLetters)} |->
        CharAt(LowerLetters, IndexOf(c, UpperLetters))]

LowerChar(c) == IF c \in DOMAIN LowerOf THEN LowerOf[c] ELSE c

RECURSIVE Lower(_)
\* s.lower()
Lower(s) ==
    IF s = "" THEN "" ELSE LowerChar(CharAt(s, 1)) \o Lower(SubSeq(s, 2, Len(s)))

\* a < b for two str values: lexicographic by code point
StrLess(a, b) ==
    \E i \in 1..(Len(b)) :
        /\ \A j \in 1..(i - 1) : j <= Len(a) /\ CharAt(a, j) = CharAt(b, j)
        /\ \/ i = Len(a) + 1
           \/ i <= Len(a) /\ Ord(CharAt(a, i)) < Ord(CharAt(b, i))

\* sub in s
Contains(s, sub) ==
    \E i \in 1..(Len(s) - Len(sub) + 1) : SubSeq(s, i, i + Len(sub) - 1) = sub

CountChar(c, s) == Cardinality({i \in 1..Len(s) : CharAt(s, i) = c})

RECURSIVE Strip(_)
\* s.strip(), for the space character
Strip(s) ==
    IF s = "" THEN ""
    ELSE IF CharAt(s, 1) = " " THEN Strip(SubSeq(s, 2, Len(s)))
    ELSE IF CharAt(s, Len(s)) = " " THEN Strip(SubSeq(s, 1, Len(s) - 1))
    ELSE s

(***************************************************************************)
(* Optional values.                                                        *)
(***************************************************************************)
None == <<>>
Some(v) == <<v>>
\* Python truthiness of an Optional[str]: None and "" are falsy
Truthy(o) == o # None /\ o[1] # ""


(***************************************************************************)
(* The seed catalog and the Product schema.                                *)
(***************************************************************************)
SAMPLE_PRODUCTS ==
    << [title |-> "Retro Gamer Setup",
        description |-> "Pink CRT monitor, mechanical keyboard, RGB mouse, and neon desk mat.",
        price |-> 699,
        category |-> "gaming",
        in_stock |-> TRUE,
        image |-> "https://images.unsplash.com/photo-1603484477859-abe6a73f9360?q=80&w=1400&auto=format&fit=crop"],
       [title |-> "Deep Work Productivity",
        description |-> "Dual 27\" IPS monitors, ergonomic chair, and silent peripherals.",
        price |-> 1199,
        category |-> "productivity",
        in_stock |-> TRUE,
        image |-> "https://images.unsplash.com/photo-1559163499-413811fb2344?q=80&w=1400&auto=format&fit=crop"],
       [title |-> "Creator Studio",
        description |-> "Ultra-wide 34\" display, studio speakers, and adjustable boom arm.",
        price |-> 1899,
        category |-> "creator",
        in_stock |-> TRUE,
        image |-> "https://images.unsplash.com/photo-1518779578993-ec3579fee39f?q=80&w=1400&auto=format&fit=crop"],
       [title |-> "Minimal Zen Desk",
        description |-> "Clean aluminum monitor stand, wireless keyboard, and warm lighting.",
        price |-> 899,
        category |-> "minimal",
        in_stock |-> TRUE,
        image |-> "https://images.unsplash.com/photo-1519389950473-47ba0277781c?q=80&w=1400&auto=format&fit=crop"],
       [title |-> "Streamer Pro Rig",
        description |-> "High FPS monitor, condenser mic, key light, and capture card.",
        price |-> 1599,
        category |-> "streaming",
        in_stock |-> TRUE,
        image |-> "https://images.unsplash.com/photo-1498050108023-c5249f4df085?q=80&w=1400&auto=format&fit=crop"] >>

ProductValidAboveThousand(p) == p.price > 1000

\* Product(**{...}): the only constraint a well-typed entry can break is ge=0
ProductValid(p) == p.price >= 0

\* a document with the two timestamps attached: p.copy() plus created_at, updated_at
WithMeta(p, now) ==
    [k \in DOMAIN p \cup {"created_at", "updated_at"} |->
        IF k \in {"created_at", "updated_at"} THEN now ELSE p[k]]

LoopAllButLast(catalog, clock) ==
    [raised |-> FALSE,
     docs |-> [i \in 1..(Len(catalog) - 1) |-> WithMeta(catalog[i], clock + i)]]

\* The loop of ensure_seed_data over the catalog: entry i is validated, then
\* stamped with the i-th reading of the clock.  A validation error leaves the
\* loop by the exception, before insert_many is reached.
BuildToInsert(catalog, clock) ==
    IF \A i \in 1..Len(catalog) : ProductValid(catalog[i])
    THEN [raised |-> FALSE,
          docs |-> [i \in 1..Len(catalog) |-> WithMeta(catalog[i], clock + i)]]
    ELSE [raised |-> TRUE, docs |-> <<>>]

SeedAlways(count) == count >= 0

\* if count == 0
SeedNeeded(count) == count = 0

(***************************************************************************)
(* The document store: a collection is the sequence of its documents in    *)
(* insertion order; the store generates the _id of an inserted document.   *)
(***************************************************************************)
WithId(doc, id) ==
    [k \in DOMAIN doc \cup {"_id"} |-> IF k = "_id" THEN id ELSE doc[k]]

CountDocuments(coll) == Len(coll)

InsertIfEmpty(coll, docs, firstId) ==
    IF coll = <<>> THEN coll \o [i \in 1..Len(docs) |-> WithId(docs[i], firstId + i - 1)] ELSE coll

\* insert_many(docs): one call, the documents in order
InsertMany(coll, docs, firstId) ==
    coll \o [i \in 1..Len(docs) |-> WithId(docs[i], firstId + i - 1)]

\* insert_one(doc)
InsertOne(coll, doc, id) == Append(coll, WithId(doc, id))

\* {"$regex": q, "$options": "i"} on a text field, for a q without regular
\* expression metacharacters: q occurs in the text, letter case ignored
RegexMatchI(text, q) ==
    \E i \in 1..(Len(text) - Len(q) + 1) :
        \A j \in 1..Len(q) : LowerChar(CharAt(text, i + j - 1)) = LowerChar(CharAt(q, j))

\* does the document satisfy the query of list_products
Matches(doc, query) ==
    /\ query.category # None => doc.category = query.category[1]
    /\ query.text # None =>
          \/ RegexMatchI(doc.title, query.text[1])
          \/ RegexMatchI(doc.description, query.text[1])

RECURSIVE Find(_, _)
\* find(query): the matching documents, in collection order
Find(coll, query) ==
    IF coll = <<>> THEN <<>>
    ELSE (IF Matches(coll[1], query) THEN <<coll[1]>> ELSE <<>>) \o Find(Tail(coll), query)

RECURSIVE InsertDesc(_, _)
\* d put into a sequence sorted by created_at descending, after its equals
InsertDesc(sorted, d) ==
    IF sorted = <<>> THEN <<d>>
    ELSE IF d.created_at > sorted[1].created_at THEN <<d>> \o sorted
    ELSE <<sorted[1]>> \o InsertDesc(Tail(sorted), d)

RECURSIVE SortCreatedDesc(_)
\* .sort("created_at", -1)
SortCreatedDesc(docs) ==
    IF docs = <<>> THEN <<>>
    ELSE InsertDesc(SortCreatedDesc(SubSeq(docs, 1, Len(docs) - 1)), docs[Len(docs)])

DistinctAll(coll, field) == [i \in 1..Len(coll) |-> coll[i][field]]

RECURSIVE Distinct(_, _)
\* distinct(field): every value once, in order of first occurrence
Distinct(coll, field) ==
    IF coll = <<>> THEN <<>>
    ELSE LET rest == Distinct(SubSeq(coll, 1, Len(coll) - 1), field)
             v == coll[Len(coll)][field]
         IN IF \E i \in 1..Len(rest) : rest[i] = v THEN rest ELSE Append(rest, v)

RECURSIVE InsertAsc(_, _)
InsertAsc(sorted, s) ==
    IF sorted = <<>> THEN <<s>>
    ELSE IF StrLess(s, sorted[1]) THEN <<s>> \o sorted
    ELSE <<sorted[1]>> \o InsertAsc(Tail(sorted), s)

RECURSIVE Sorted(_)
\* sorted(strs)
Sorted(strs) ==
    IF strs = <<>> THEN <<>>
    ELSE InsertAsc(Sorted(SubSeq(strs, 1, Len(strs) - 1)), strs[Len(strs)])

(***************************************************************************)
(* Serialization.                                                          *)
(***************************************************************************)
\* str(ObjectId)
ObjectIdStr(id) == "oid" \o ToString(id)
\* datetime.isoformat()
IsoFormat(ts) == "T" \o ToString(ts)

DatetimeFields == {"created_at", "updated_at"}

\* serialize_doc: _id becomes the text id, datetimes become ISO text
serialize_doc(doc) ==
    IF DOMAIN doc = {} THEN doc
    ELSE [k \in (DOMAIN doc \ {"_id"}) \cup (IF "_id" \in DOMAIN doc THEN {"id"} ELSE {}) |->
            IF k = "id" THEN ObjectIdStr(doc["_id"])
            ELSE IF k \in DatetimeFields THEN IsoFormat(doc[k])
            ELSE doc[k]]

(***************************************************************************)
(* list_products and list_categories, after the seed step.                 *)
(***************************************************************************)
BuildQueryCaseSensitive(category, q) ==
    [category |-> IF Truthy(category) /\ category[1] # "all" THEN category ELSE None,
     text |-> IF Truthy(q) THEN q ELSE None]

\* the query dictionary of list_products
BuildQuery(category, q) ==
    [category |-> IF Truthy(category) /\ Lower(category[1]) # "all"
                  THEN Some(Lower(category[1])) ELSE None,
     text |-> IF Truthy(q) THEN q ELSE None]

\* the items of the response of list_products over the collection coll
ListItems(coll, category, q) ==
    LET items == SortCreatedDesc(Find(coll, BuildQuery(category, q)))
    IN [i \in 1..Len(items) |-> serialize_doc(items[i])]

\* the categories of the response of list_categories
CategoryList(coll) == <<"all">> \o Sorted(Distinct(coll, "category"))

(***************************************************************************)
(* Request bodies.  A JSON value carries its type, so that the schema can  *)
(* reject a value of the wrong type.                                       *)
(***************************************************************************)
JStr(s) == [t |-> "str", str |-> s]
JNum(n) == [t |-> "num", num |-> n]
JArr(a) == [t |-> "arr", arr |-> a]
JObj(o) == [t |-> "obj", obj |-> o]

Has(j, k) == k \in DOMAIN j.obj
IsStrField(j, k) == Has(j, k) /\ j.obj[k].t = "str"
IsNumField(j, k) == Has(j, k) /\ j.obj[k].t = "num"
\* Optional[str] = None: absent, or text
IsOptStrField(j, k) == Has(j, k) => j.obj[k].t = "str"
OptStr(j, k) == IF Has(j, k) THEN Some(j.obj[k].str) ELSE None

\* EmailStr, validation: after strip(), one "@", a non-empty local part, a
\* domain with a dot inside it, and no space
EmailValid(s) ==
    LET e == Strip(s)
        at == IndexOf("@", e)
        domain == SubSeq(e, at + 1, Len(e))
    IN /\ CountChar("@", e) = 1
       /\ at > 1
       /\ CountChar(" ", e) = 0
       /\ Len(domain) >= 3
       /\ Contains(domain, ".")
       /\ CharAt(domain, 1) # "."
       /\ CharAt(domain, Len(domain)) # "."
       /\ ~Contains(domain, "..")

\* EmailStr, the validated value: the normalized address, whose domain is
\* lower-cased
EmailNormalized(s) ==
    LET e == Strip(s)
        at == IndexOf("@", e)
    IN SubSeq(e, 1, at) \o Lower(SubSeq(e, at + 1, Len(e)))

QuantityAny(n) == TRUE

\* quantity: int = Field(ge=1)
QuantityValid(n) == n >= 1

\* OrderItem
OrderItemValid(j) ==
    /\ j.t = "obj"
    /\ IsStrField(j, "product_id")
    /\ IsStrField(j, "title")
    /\ IsNumField(j, "price")
    /\ IsNumField(j, "quantity")
    /\ QuantityValid(j.obj["quantity"].num)

\* CustomerInfo
CustomerInfoValid(j) ==
    /\ j.t = "obj"
    /\ IsStrField(j, "name")
    /\ IsStrField(j, "email")
    /\ EmailValid(j.obj["email"].str)
    /\ IsOptStrField(j, "address")

\* CreateOrder: does the body pass the schema
CreateOrderValid(j) ==
    /\ j.t = "obj"
    /\ Has(j, "items")
    /\ j.obj["items"].t = "arr"
    /\ \A i \in 1..Len(j.obj["items"].arr) : OrderItemValid(j.obj["items"].arr[i])
    /\ Has(j, "customer")
    /\ CustomerInfoValid(j.obj["customer"])
    /\ IsOptStrField(j, "note")

ParseItem(j) ==
    [product_id |-> j.obj["product_id"].str, title |-> j.obj["title"].str,
     price |-> j.obj["price"].num, quantity |-> j.obj["quantity"].num]

\* CreateOrder: the validated model of a body that passes the schema
ParseCreateOrder(j) ==
    [items |-> [i \in 1..Len(j.obj["items"].arr) |-> ParseItem(j.obj["items"].arr[i])],
     customer |-> [name |-> j.obj["customer"].obj["name"].str,
                   email |-> EmailNormalized(j.obj["customer"].obj["email"].str),
                   address |-> OptStr(j.obj["customer"], "address")],
     note |-> OptStr(j, "note")]

ModelDumpNoNote(payload) ==
    [items |-> payload.items, customer |-> payload.customer, note |-> None]

\* payload.model_dump(): the fields of the model, nested models as dictionaries
ModelDump(payload) ==
    [items |-> [i \in 1..Len(payload.items) |->
                  [product_id |-> payload.items[i].product_id,
                   title |-> payload.items[i].title,
                   price |-> payload.items[i].price,
                   quantity |-> payload.items[i].quantity]],
     customer |-> [name |-> payload.customer.name,
                   email |-> payload.customer.email,
                   address |-> payload.customer.address],
     note |-> payload.note]

\* create_document(collection, data): one insert_one, the generated id as text
CreateDocument(coll, data, id) ==
    [coll |-> InsertOne(coll, data, id), id |-> ObjectIdStr(id)]

(***************************************************************************)
(* The requests of the model.                                              *)
(***************************************************************************)
\* values of the query parameter category, None when it is absent
CategoryInputs == {None, Some("GAMING")}
\* values of the query parameter q, None when it is absent
QInputs == {None, Some("MONITOR")}

ItemA == JObj([product_id |-> JStr("p1"), title |-> JStr("Retro Gamer Setup"),
               price |-> JNum(699), quantity |-> JNum(2)])
ItemB == JObj([product_id |-> JStr("p9"), title |-> JStr("Minimal Zen Desk"),
               price |-> JNum(899), quantity |-> JNum(1)])
ItemZeroQuantity == JObj([product_id |-> JStr("p1"), title |-> JStr("Retro Gamer Setup"),
                          price |-> JNum(699), quantity |-> JNum(0)])
ItemTextQuantity == JObj([product_id |-> JStr("p1"), title |-> JStr("Retro Gamer Setup"),
                          price |-> JNum(699), quantity |-> JStr("two")])
ItemNoTitle == JObj([product_id |-> JStr("p1"), price |-> JNum(699), quantity |-> JNum(1)])
Ann == JObj([name |-> JStr("Ann"), email |-> JStr("ann@example.com")])
Bob == JObj([name |-> JStr("Bob"), email |-> JStr("Bob@Example.COM"),
             address |-> JStr("1 Main St")])
Eve == JObj([name |-> JStr("Eve"), email |-> JStr("not-an-email")])

\* bodies of POST /api/orders
BodyGift == JObj([items |-> JArr(<<ItemA>>), customer |-> Ann, note |-> JStr("gift wrap")])
BodyTwoItems == JObj([items |-> JArr(<<ItemA, ItemB>>), customer |-> Bob])
BodyNoItems == JObj([items |-> JArr(<<>>), customer |-> Ann])
BodyBadEmail == JObj([items |-> JArr(<<ItemA>>), customer |-> Eve])
BodyNoItemsBadEmail == JObj([items |-> JArr(<<>>), customer |-> Eve])
BodyZeroQuantity == JObj([items |-> JArr(<<ItemA, ItemZeroQuantity>>), customer |-> Ann])
BodyTextQuantity == JObj([items |-> JArr(<<ItemTextQuantity>>), customer |-> Ann])
BodyNoCustomer == JObj([items |-> JArr(<<ItemA>>)])
BodyNoTitle == JObj([items |-> JArr(<<ItemNoTitle>>), customer |-> Ann])
BodyItemsNotAList == JObj([items |-> JStr("p1"), customer |-> Ann])

OrderBodies == {BodyGift, BodyTwoItems, BodyNoItems, BodyBadEmail}

\* the bodies of the calls of create_order taken one by one
CallBodies ==
    OrderBodies \cup {BodyZeroQuantity, BodyNoItemsBadEmail, BodyTextQuantity, BodyNoCustomer,
                      BodyNoTitle, BodyItemsNotAList}

(***************************************************************************)
(* State.                                                                  *)
(***************************************************************************)
VARIABLES
    dbEnabled,    \* db is not None
    product,      \* the collection db["product"]
    order,        \* the collection db["order"]
    nextId,       \* the next _id the store generates
    clock,        \* the readings of datetime.now() so far
    pc,           \* where each worker's request stands
    req,          \* the request a worker handles
    count,        \* ensure_seed_data's local variable count
    resp,         \* the response of a worker's finished request
    served,       \* requests accepted so far
    trace,        \* the store operations the worker's request has issued
    startCount,   \* the number of products when the worker's request started
    alone,        \* no other request has overlapped the worker's request
    seedInserts,  \* insert_many calls issued by seed steps so far
    okOrders,     \* 2xx responses of create_order so far
    call          \* one call of list_products' query on a given collection

vars == <<dbEnabled, product, order, nextId, clock, pc, req, count, resp, served,
          trace, startCount, alone, seedInserts, okOrders, call>>

NoReq == [op |-> "none"]
NoCall == [made |-> FALSE]
NoResp == [status |-> 0]
Running(w) == pc[w] \notin {"idle", "done"}

Init ==
    /\ dbEnabled \in BOOLEAN
    /\ product = <<>>
    /\ order = <<>>
    /\ nextId = 1
    /\ clock = 0
    /\ pc = [w \in Workers |-> "idle"]
    /\ req = [w \in Workers |-> NoReq]
    /\ count = [w \in Workers |-> 0]
    /\ resp = [w \in Workers |-> NoResp]
    /\ served = 0
    /\ trace = [w \in Workers |-> <<>>]
    /\ startCount = [w \in Workers |-> 0]
    /\ alone = [w \in Workers |-> TRUE]
    /\ seedInserts = 0
    /\ okOrders = 0
    /\ call = NoCall

\* raise HTTPException(status_code=500, detail="Database not configured")
NotConfigured == [status |-> 500, body |-> [detail |-> "Database not configured"]]

\* a worker accepts request r
Accept(w, r) ==
    /\ ~Running(w)
    /\ served < MaxRequests
    /\ served' = served + 1
    /\ req' = [req EXCEPT ![w] = r]
    /\ startCount' = [startCount EXCEPT ![w] = Len(product)]
    /\ alone' = [o \in Workers |->
                    IF o = w THEN \A u \in Workers \ {w} : ~Running(u)
                    ELSE IF Running(o) THEN FALSE ELSE alone[o]]

\* the step that follows ensure_seed_data in the handler of request r
AfterSeed(r) == IF r.op = "list_products" THEN "find" ELSE "distinct"

\* list_products and list_categories up to the first store operation:
\* ensure_seed_data returns at once when db is None, and the handler raises
Listing(w, op, category, q) ==
    /\ Accept(w, IF op = "list_products"
                 THEN [op |-> op, category |-> category, q |-> q]
                 ELSE [op |-> op])
    /\ trace' = [trace EXCEPT ![w] = <<>>]
    /\ count' = [count EXCEPT ![w] = 0]
    /\ IF dbEnabled
       THEN /\ pc' = [pc EXCEPT ![w] = "seed_count"]
            /\ resp' = [resp EXCEPT ![w] = NoResp]
       ELSE /\ pc' = [pc EXCEPT ![w] = "done"]
            /\ resp' = [resp EXCEPT ![w] = NotConfigured]
    /\ UNCHANGED <<call, dbEnabled, product, order, nextId, clock, seedInserts, okOrders>>

\* GET /api/products?category=&q=
ListProductsCall(w) ==
    \E category \in CategoryInputs, q \in QInputs :
        Listing(w, "list_products", category, q)

\* GET /api/categories, which takes no parameter
ListCategoriesCall(w) == Listing(w, "list_categories", None, None)

\* ensure_seed_data: count = db["product"].count_documents({})
SeedCount(w) ==
    /\ pc[w] = "seed_count"
    /\ count' = [count EXCEPT ![w] = CountDocuments(product)]
    /\ trace' = [trace EXCEPT ![w] = Append(@, "count_documents")]
    /\ pc' = [pc EXCEPT ![w] = IF SeedNeeded(CountDocuments(product))
                               THEN "seed_insert" ELSE AfterSeed(req[w])]
    /\ UNCHANGED <<call, dbEnabled, product, order, nextId, clock, req, resp, served,
                   startCount, alone, seedInserts, okOrders>>

\* ensure_seed_data, count == 0: the loop, then db["product"].insert_many;
\* any exception is swallowed and the handler goes on
SeedInsert(w) ==
    /\ pc[w] = "seed_insert"
    /\ LET built == BuildToInsert(SAMPLE_PRODUCTS, clock)
       IN IF ~built.raised /\ built.docs # <<>>
          THEN /\ product' = InsertMany(product, built.docs, nextId)
               /\ nextId' = nextId + Len(built.docs)
               /\ trace' = [trace EXCEPT ![w] = Append(@, "insert_many")]
               /\ seedInserts' = seedInserts + 1
          ELSE UNCHANGED <<product, nextId, trace, seedInserts>>
    /\ clock' = clock + Len(SAMPLE_PRODUCTS)
    /\ pc' = [pc EXCEPT ![w] = AfterSeed(req[w])]
    /\ UNCHANGED <<call, dbEnabled, order, req, count, resp, served, startCount, alone,
                   okOrders>>

\* list_products: db["product"].find(query).sort("created_at", -1)
FindProducts(w) ==
    /\ pc[w] = "find"
    /\ resp' = [resp EXCEPT ![w] =
                  [status |-> 200,
                   body |-> [items |-> ListItems(product, req[w].category, req[w].q)]]]
    /\ trace' = [trace EXCEPT ![w] = Append(@, "find")]
    /\ pc' = [pc EXCEPT ![w] = "done"]
    /\ UNCHANGED <<call, dbEnabled, product, order, nextId, clock, req, count, served,
                   startCount, alone, seedInserts, okOrders>>

\* list_categories: db["product"].distinct("category")
DistinctCategories(w) ==
    /\ pc[w] = "distinct"
    /\ resp' = [resp EXCEPT ![w] =
                  [status |-> 200, body |-> [categories |-> CategoryList(product)]]]
    /\ trace' = [trace EXCEPT ![w] = Append(@, "distinct")]
    /\ pc' = [pc EXCEPT ![w] = "done"]
    /\ UNCHANGED <<call, dbEnabled, product, order, nextId, clock, req, count, served,
                   startCount, alone, seedInserts, okOrders>>

OrderOutcomeNoEmptyCheck(body, enabled, coll, id) ==
    IF ~CreateOrderValid(body)
    THEN [resp |-> [status |-> 422, body |-> [detail |-> "validation error"]],
          coll |-> coll, ops |-> <<>>]
    ELSE IF ~enabled
    THEN [resp |-> NotConfigured, coll |-> coll, ops |-> <<>>]
    ELSE LET made == CreateDocument(coll, ModelDump(ParseCreateOrder(body)), id)
         IN [resp |-> [status |-> 200, body |-> [id |-> made.id]],
             coll |-> made.coll, ops |-> <<"insert_one">>]

OrderOutcomeEmptyCheckFirst(body, enabled, coll, id) ==
    IF ~CreateOrderValid(body)
    THEN [resp |-> [status |-> 422, body |-> [detail |-> "validation error"]],
          coll |-> coll, ops |-> <<>>]
    ELSE IF ParseCreateOrder(body).items = <<>>
    THEN [resp |-> [status |-> 400,
                    body |-> [detail |-> "Order must contain at least one item"]],
          coll |-> coll, ops |-> <<>>]
    ELSE IF ~enabled
    THEN [resp |-> NotConfigured, coll |-> coll, ops |-> <<>>]
    ELSE LET made == CreateDocument(coll, ModelDump(ParseCreateOrder(body)), id)
         IN [resp |-> [status |-> 200, body |-> [id |-> made.id]],
             coll |-> made.coll, ops |-> <<"insert_one">>]

\* the outcome of POST /api/orders with the given body: the framework
\* validates the body against CreateOrder before it calls create_order
OrderOutcome(body, enabled, coll, id) ==
    IF ~CreateOrderValid(body)
    THEN [resp |-> [status |-> 422, body |-> [detail |-> "validation error"]],
          coll |-> coll, ops |-> <<>>]
    ELSE IF ~enabled
    THEN [resp |-> NotConfigured, coll |-> coll, ops |-> <<>>]
    ELSE IF ParseCreateOrder(body).items = <<>>
    THEN [resp |-> [status |-> 400,
                    body |-> [detail |-> "Order must contain at least one item"]],
          coll |-> coll, ops |-> <<>>]
    ELSE LET made == CreateDocument(coll, ModelDump(ParseCreateOrder(body)), id)
         IN [resp |-> [status |-> 200, body |-> [id |-> made.id]],
             coll |-> made.coll, ops |-> <<"insert_one">>]

\* POST /api/orders
CreateOrderCall(w) ==
    \E body \in OrderBodies :
        LET out == OrderOutcome(body, dbEnabled, order, nextId)
        IN /\ Accept(w, [op |-> "create_order", body |-> body])
           /\ resp' = [resp EXCEPT ![w] = out.resp]
           /\ order' = out.coll
           /\ nextId' = nextId + Len(out.ops)
           /\ trace' = [trace EXCEPT ![w] = out.ops]
           /\ okOrders' = IF out.resp.status = 200 THEN okOrders + 1 ELSE okOrders
           /\ pc' = [pc EXCEPT ![w] = "done"]
           /\ count' = [count EXCEPT ![w] = 0]
           /\ UNCHANGED <<call, dbEnabled, product, clock, seedInserts>>

Next ==
    \E w \in Workers :
        \/ ListProductsCall(w)
        \/ ListCategoriesCall(w)
        \/ SeedCount(w)
        \/ SeedInsert(w)
        \/ FindProducts(w)
        \/ DistinctCategories(w)
        \/ CreateOrderCall(w)

Spec == Init /\ [][Next]_vars

(***************************************************************************)
(* The handlers as functions of their inputs, one call at a time: the      *)
(* query of list_products on each collection the seed step leaves (the     *)
(* catalog inserted 0 to MaxBatches times) with each pair of parameters,   *)
(* and create_order on each body, with the store enabled or not and 0 to   *)
(* MaxStored orders in the collection.                                     *)
(***************************************************************************)
\* seed batches in the collection of a call
MaxBatches == 2
\* orders in the collection of a call
MaxStored == 2

RECURSIVE Seeded(_)
\* the product collection after n seed steps have inserted
Seeded(n) ==
    IF n = 0 THEN <<>>
    ELSE InsertMany(Seeded(n - 1),
                    BuildToInsert(SAMPLE_PRODUCTS, (n - 1) * Len(SAMPLE_PRODUCTS)).docs,
                    (n - 1) * Len(SAMPLE_PRODUCTS) + 1)

RECURSIVE Ordered(_)
\* the order collection after n orders BodyGift
Ordered(n) ==
    IF n = 0 THEN <<>> ELSE OrderOutcome(BodyGift, TRUE, Ordered(n - 1), n).coll

\* values of the query parameter category of a call
CallCategories ==
    {None, Some(""), Some("all"), Some("ALL"), Some("All"), Some("aLL"),
     Some("gaming"), Some("GAMING"), Some("Gaming"), Some("creator"), Some("nosuch")}
\* values of the query parameter q of a call
CallTexts == {None, Some(""), Some("monitor"), Some("DESK")}

QueryCalls ==
    {[made |-> FALSE, kind |-> "query", batches |-> n, category |-> category, q |-> q,
      items |-> <<>>] :
        n \in 0..MaxBatches, category \in CallCategories, q \in CallTexts}

OrderCalls ==
    {[made |-> FALSE, kind |-> "order", body |-> body, enabled |-> enabled, stored |-> n,
      resp |-> NoResp, coll |-> <<>>, ops |-> <<>>] :
        body \in CallBodies, enabled \in BOOLEAN, n \in 0..MaxStored}

InitCall ==
    /\ dbEnabled = TRUE
    /\ product = <<>>
    /\ order = <<>>
    /\ nextId = 1
    /\ clock = 0
    /\ pc = [w \in Workers |-> "idle"]
    /\ req = [w \in Workers |-> NoReq]
    /\ count = [w \in Workers |-> 0]
    /\ resp = [w \in Workers |-> NoResp]
    /\ served = 0
    /\ trace = [w \in Workers |-> <<>>]
    /\ startCount = [w \in Workers |-> 0]
    /\ alone = [w \in Workers |-> TRUE]
    /\ seedInserts = 0
    /\ okOrders = 0
    /\ call \in QueryCalls \cup OrderCalls

\* list_products after the seed step, on the collection of the call
QueryProducts ==
    /\ ~call.made
    /\ call.kind = "query"
    /\ call' = [call EXCEPT !.made = TRUE,
                            !.items = ListItems(Seeded(call.batches), call.category, call.q)]
    /\ UNCHANGED <<dbEnabled, product, order, nextId, clock, pc, req, count, resp, served,
                   trace, startCount, alone, seedInserts, okOrders>>

\* POST /api/orders with the body of the call
SubmitOrder ==
    /\ ~call.made
    /\ call.kind = "order"
    /\ LET out == OrderOutcome(call.body, call.enabled, Ordered(call.stored),
                               call.stored + 1)
       IN call' = [call EXCEPT !.made = TRUE, !.resp = out.resp, !.coll = out.coll,
                               !.ops = out.ops]
    /\ UNCHANGED <<dbEnabled, product, order, nextId, clock, pc, req, count, resp, served,
                   trace, startCount, alone, seedInserts, okOrders>>

NextCall == QueryProducts \/ SubmitOrder

SpecCall == InitCall /\ [][NextCall]_vars

(***************************************************************************)
(* Vocabulary of the properties.                                           *)
(***************************************************************************)
Range(s) == {s[i] : i \in 1..Len(s)}
Done(w, op) == pc[w] = "done" /\ req[w].op = op
IsListing(w) == req[w].op \in {"list_products", "list_categories"}
\* the worker's listing request has left ensure_seed_data with the store enabled
PastSeed(w) == dbEnabled /\ IsListing(w) /\ pc[w] \in {"find", "distinct", "done"}
Issued(w, storeOp) == storeOp \in Range(trace[w])
NumSample == Len(SAMPLE_PRODUCTS)

\* the fields of SAMPLE_PRODUCTS of a stored product
CatalogFields(doc) == [k \in DOMAIN SAMPLE_PRODUCTS[1] |-> doc[k]]
\* the collection is the catalog, whole, some number of times
WholeCatalogs(coll) ==
    /\ Len(coll) % NumSample = 0
    /\ \A i \in 1..Len(coll) :
          CatalogFields(coll[i]) = SAMPLE_PRODUCTS[((i - 1) % NumSample) + 1]

\* the bodies with at least one item, quantities >= 1 and a valid email
GoodBodies == {BodyGift, BodyTwoItems}
\* the bodies with no item that are valid otherwise
EmptyItemsBodies == {BodyNoItems}
\* the bodies that break the schema: email, quantity, missing or ill-typed field
SchemaInvalidBodies ==
    {BodyBadEmail, BodyNoItemsBadEmail, BodyZeroQuantity, BodyTextQuantity,
     BodyNoCustomer, BodyNoTitle, BodyItemsNotAList}

\* a category parameter that asks for no filter: absent, empty, or "all"
AllLikeCategories ==
    {None, Some(""), Some("all"), Some("ALL"), Some("All"), Some("aLL")}
NoFilter(category) == category \in AllLikeCategories
SameCategory(doc, category) == Lower(doc.category) = Lower(category[1])
\* q of the request occurs in the title or the description, case ignored
TextFound(doc, q) ==
    \/ q = None
    \/ Contains(Lower(doc.title), Lower(q[1]))
    \/ Contains(Lower(doc.description), Lower(q[1]))

(***************************************************************************)
(* C1.                                                                     *)
(***************************************************************************)
\* C1: a listing request that starts while the product collection is
\* non-empty issues no insert; when no other request overlaps it, the number
\* of products after its seed step is the number at its start.
C1_SeedIdempotent ==
    \A w \in Workers :
        PastSeed(w) /\ startCount[w] > 0 =>
            /\ ~Issued(w, "insert_many")
            /\ alone[w] => Len(product) = startCount[w]

C1_Witness ==
    \E w \in Workers :
        /\ Done(w, "list_products") /\ dbEnabled /\ alone[w]
        /\ startCount[w] = NumSample
        /\ trace[w] = <<"count_documents", "find">>
        /\ served >= 2

(***************************************************************************)
(* C2.                                                                     *)
(***************************************************************************)
\* C2: every seed step that counted 0 performs its batch insert whatever the
\* collection holds by then: the collection holds the catalog once per
\* insert_many issued, so two interleaved seed steps leave 10 documents.
C2_EverySeedInsertLands ==
    /\ Len(product) = NumSample * seedInserts
    /\ \A w \in Workers :
          PastSeed(w) /\ Issued(w, "count_documents") /\ count[w] = 0 =>
              Issued(w, "insert_many")

C2_Witness ==
    /\ Len(product) = 2 * NumSample
    /\ \E v, w \in Workers :
          /\ v # w
          /\ count[v] = 0 /\ Issued(v, "insert_many")
          /\ count[w] = 0 /\ Issued(w, "insert_many")

(***************************************************************************)
(* C3.                                                                     *)
(***************************************************************************)
SeededAlone(w) ==
    Done(w, "list_products") /\ dbEnabled /\ startCount[w] = 0 /\ alone[w]

FiveSampleProducts ==
    /\ Len(product) = 5
    /\ WholeCatalogs(product)
    /\ \A i \in 1..Len(product) : product[i].price >= 0 /\ product[i].category # ""

\* C3 as stated: the response of the request that seeds holds the 5 products.
C3_Original ==
    \A w \in Workers :
        SeededAlone(w) =>
            /\ FiveSampleProducts
            /\ Range(resp[w].body.items) = {serialize_doc(d) : d \in Range(product)}

\* C3, amended: a product listing that starts on an empty collection, alone,
\* leaves exactly the 5 sample products, each with price >= 0 and a category,
\* and its response holds those of them that pass the request's filters: all
\* 5 when the request has none.
C3_SeedOnFirstUse ==
    \A w \in Workers :
        SeededAlone(w) =>
            /\ FiveSampleProducts
            /\ resp[w].status = 200
            /\ Range(resp[w].body.items) =
                  {serialize_doc(d) : d \in
                      {e \in Range(product) :
                          /\ NoFilter(req[w].category) \/ SameCategory(e, req[w].category)
                          /\ TextFound(e, req[w].q)}}
            /\ NoFilter(req[w].category) /\ req[w].q = None =>
                  Len(resp[w].body.items) = 5

C3_Witness ==
    \E w \in Workers :
        /\ SeededAlone(w)
        /\ req[w].category = None /\ req[w].q = None
        /\ Len(resp[w].body.items) = 5
        /\ trace[w] = <<"count_documents", "insert_many", "find">>

(***************************************************************************)
(* C4.                                                                     *)
(***************************************************************************)
\* the JSON items of a body as plain values
PlainItems(body) ==
    [i \in 1..Len(body.obj["items"].arr) |-> ParseItem(body.obj["items"].arr[i])]
\* the stored order whose identifier the response carries
StoredAs(id) == {i \in 1..Len(order) : ObjectIdStr(order[i]["_id"]) = id}

StoredVerbatim(doc, body, email) ==
    /\ doc.items = PlainItems(body)
    /\ doc.customer.name = body.obj["customer"].obj["name"].str
    /\ doc.customer.email = email
    /\ doc.customer.address = OptStr(body.obj["customer"], "address")
    /\ doc.note = OptStr(body, "note")

\* C4 as stated: the stored customer equals the customer of the payload.
C4_Original ==
    \A w \in Workers :
        Done(w, "create_order") /\ dbEnabled /\ req[w].body \in GoodBodies =>
            /\ resp[w].status = 200
            /\ resp[w].body.id # ""
            /\ \E i \in StoredAs(resp[w].body.id) :
                  StoredVerbatim(order[i], req[w].body,
                                 req[w].body.obj["customer"].obj["email"].str)

\* C4, amended: a good payload sent while the store is enabled inserts exactly
\* one order, whose items, note, customer name and address are the payload's
\* and whose customer email is the payload's email as validated (stripped,
\* domain in lower case); the response carries the non-empty identifier the
\* store gave that document; orders stored = successful responses.
C4_OrderStored ==
    /\ Len(order) = okOrders
    /\ \A w \in Workers :
          Done(w, "create_order") /\ dbEnabled /\ req[w].body \in GoodBodies =>
              /\ resp[w].status = 200
              /\ resp[w].body.id # ""
              /\ trace[w] = <<"insert_one">>
              /\ Cardinality(StoredAs(resp[w].body.id)) = 1
              /\ \A i \in StoredAs(resp[w].body.id) :
                    StoredVerbatim(order[i], req[w].body,
                        EmailNormalized(req[w].body.obj["customer"].obj["email"].str))

C4_Witness ==
    \E w \in Workers :
        /\ Done(w, "create_order") /\ dbEnabled /\ req[w].body = BodyTwoItems
        /\ resp[w].status = 200
        /\ Len(order) = 2
        /\ \E i \in StoredAs(resp[w].body.id) :
              order[i].customer.email = "Bob@example.com" /\ Len(order[i].items) = 2

(***************************************************************************)
(* C5.                                                                     *)
(***************************************************************************)
\* C5: an otherwise valid payload with no item, sent while the store is
\* enabled, gets a 400-class error and inserts nothing.
C5_EmptyItemsRejected ==
    call.made /\ call.kind = "order" /\ call.enabled /\ call.body \in EmptyItemsBodies =>
        /\ call.resp.status \in 400..499
        /\ call.coll = Ordered(call.stored)
        /\ call.ops = <<>>

C5_Witness ==
    /\ call.made /\ call.kind = "order" /\ call.enabled /\ call.body = BodyNoItems
    /\ call.resp.status = 400
    /\ Len(call.coll) = 2

(***************************************************************************)
(* C6.                                                                     *)
(***************************************************************************)
\* C6: a payload that breaks the schema gets a 400-class error and no store
\* operation is issued for it, the store enabled or not.
C6_InvalidRejected ==
    call.made /\ call.kind = "order" /\ call.body \in SchemaInvalidBodies =>
        /\ call.resp.status \in 400..499
        /\ call.coll = Ordered(call.stored)
        /\ call.ops = <<>>

C6_Witness ==
    /\ call.made /\ call.kind = "order" /\ call.enabled
    /\ call.body = BodyZeroQuantity
    /\ call.resp.status = 422
    /\ Len(call.coll) = 1

(***************************************************************************)
(* C7.                                                                     *)
(***************************************************************************)
\* C7 as stated: with the store disabled every request gets the 500.
C7_Original ==
    ~dbEnabled =>
        \A w \in Workers : pc[w] = "done" => resp[w] = NotConfigured /\ trace[w] = <<>>

\* C7, amended: with the store disabled, list products, list categories and
\* create order with a payload that passes the schema (an empty items list
\* included) get the 500 with the fixed message; no request issues a store
\* operation.
C7_DisabledStore ==
    ~dbEnabled =>
        /\ product = <<>> /\ order = <<>>
        /\ \A w \in Workers :
              /\ trace[w] = <<>>
              /\ pc[w] \in {"idle", "done"}
              /\ pc[w] = "done" /\ (IsListing(w) \/ req[w].body \in GoodBodies \cup EmptyItemsBodies)
                    => resp[w] = NotConfigured

C7_Witness ==
    /\ ~dbEnabled
    /\ \E v, w \in Workers :
          /\ Done(v, "create_order") /\ req[v].body = BodyNoItems /\ resp[v].status = 500
          /\ Done(w, "list_categories") /\ resp[w].status = 500

(***************************************************************************)
(* C8.                                                                     *)
(***************************************************************************)
\* C8: a category listing starts with "all", goes on with the distinct
\* categories of the products in ascending order, and repeats no name.
C8_Categories ==
    \A w \in Workers :
        Done(w, "list_categories") /\ dbEnabled =>
            LET cats == resp[w].body.categories
            IN /\ resp[w].status = 200
               /\ cats[1] = "all"
               /\ {cats[i] : i \in 2..Len(cats)} = {d.category : d \in Range(product)}
               /\ \A i \in 2..(Len(cats) - 1) : StrLess(cats[i], cats[i + 1])
               /\ \A i, j \in 1..Len(cats) : i # j => cats[i] # cats[j]

C8_Witness ==
    \E w \in Workers :
        /\ Done(w, "list_categories")
        /\ Len(product) = 2 * NumSample
        /\ resp[w].body.categories =
              <<"all", "creator", "gaming", "minimal", "productivity", "streaming">>

(***************************************************************************)
(* C9.                                                                     *)
(***************************************************************************)
\* the response of the same call without the category parameter
Unfiltered == ListItems(Seeded(call.batches), None, call.q)

\* C9: on the same collection and for the same q, a category that is absent,
\* empty or "all" in any letter case lists what a request without category
\* lists, and any other category lists exactly the products whose category is
\* that one, letter case ignored.
C9_CategoryFilter ==
    call.made /\ call.kind = "query" =>
        /\ NoFilter(call.category) => call.items = Unfiltered
        /\ ~NoFilter(call.category) =>
              /\ Range(call.items) =
                    {d \in Range(Unfiltered) : Lower(d.category) = Lower(call.category[1])}
              /\ Len(call.items) = Cardinality(Range(call.items))

C9_Witness ==
    /\ call.made /\ call.kind = "query"
    /\ call.category = Some("GAMING") /\ call.q = Some("monitor")
    /\ call.batches = 2
    /\ Len(call.items) = 2
    /\ \A i \in 1..2 : call.items[i].title = "Retro Gamer Setup"
    /\ Len(Unfiltered) = 8

(***************************************************************************)
(* C10.                                                                    *)
(***************************************************************************)
\* a catalog whose i-th entry breaks the Product schema
BrokenCatalog(i) == [SAMPLE_PRODUCTS EXCEPT ![i].price = -1]

WholeCatalogsOnly ==
    /\ WholeCatalogs(product)
    /\ \A i \in 1..NumSample :
          LET built == BuildToInsert(BrokenCatalog(i), clock)
          IN built.raised /\ built.docs = <<>>
    /\ LET built == BuildToInsert(SAMPLE_PRODUCTS, clock)
       IN ~built.raised /\ Len(built.docs) = NumSample

OrderKeepsProducts ==
    \A w \in Workers :
        pc'[w] = "done" /\ req'[w].op = "create_order" /\ served' # served =>
            product' = product

\* C10: the seed inserts the whole catalog in one batch or nothing (an entry
\* that fails validation leaves the batch empty), so the product collection
\* is always whole catalogs, and an order request leaves it as it was.
C10_AllOrNothing == []WholeCatalogsOnly /\ [][OrderKeepsProducts]_vars

C10_Witness ==
    /\ Len(product) = NumSample
    /\ okOrders = 1
    /\ \E w \in Workers : Done(w, "create_order") /\ resp[w].status = 200

====
